---- MODULE Spec2Model ----
(***************************************************************************)
(* Model of chemcoord's Cartesian class (src/chemcoord/xyz_functions.py):  *)
(* bond detection (get_bonds, _overlap, _divide_et_impera), connectivity   *)
(* (_connected_to, _preserve_bonds) and the Z-matrix build order           *)
(* (_order_of_building, _get_reference).                                   *)
(*                                                                         *)
(* Lengths.  Atom coordinates and bond radii are whole length units.  The  *)
(* partitioner pads the bounding box by 0.01, so it computes in hundredths *)
(* (Scale); maximum_edge_length and difference_edge are given in           *)
(* hundredths.  Distances are square roots of integers; every comparison   *)
(* the code makes on them is done exactly on the squares.                  *)
(*                                                                         *)
(* Floating point.  The interval bounds of _divide_et_impera are sums of   *)
(* rounded doubles.  A coordinate that differs from the exact bound        *)
(* compares as in exact arithmetic; a coordinate equal to the exact bound  *)
(* compares according to the direction the computed bound was rounded,     *)
(* which the model leaves open (the set rnd of bounds rounded up).         *)
(*                                                                         *)
(* Sorting.  pandas' sort_values is not stable: the order it gives to      *)
(* equal overlaps is fixed for a given array but unspecified; the model    *)
(* takes it as a parameter tb (a ranking of the atoms).                    *)
(***************************************************************************)
EXTENDS Integers, Sequences, FiniteSets, TLC

VARIABLES xyz, bond_size, valency, lookup, op, args, ret

vars == <<xyz, bond_size, valency, lookup, op, args, ret>>

\* ---------------------------------------------------------------- bounds
NAtoms == 3
MaxCoord == 2

\* ------------------------------------------------------ program constants
Scale == 100
Pad == 1
DefaultMaxEdge == 25
DefaultDiffEdge == 6

Index == 1..NAtoms
None == "None"

\* The instance has no attribute __bond_dic (reading it is an AttributeError).
NoBondDic == <<>>

Axes == 1..3

\* ---------------------------------------------------------------- helpers
SetMin(S) == CHOOSE m \in S : \A x \in S : m <= x
SetMax(S) == CHOOSE m \in S : \A x \in S : x <= m
Sq(n) == n * n

EmptyGraph == [i \in Index |-> {}]

\* ------------------------------------------------- _give_distance_array
\* Squared Euclidean distance between two atoms of the frame.
Dist2(p, i, j) ==
    Sq(p[i][1] - p[j][1]) + Sq(p[i][2] - p[j][2]) + Sq(p[i][3] - p[j][3])

\* sqrt(a) - sqrt(b) > c, for naturals a, b and an integer c
SqrtDiffGreater(a, b, c) ==
    LET t == a + b - Sq(c) IN
    IF a >= b
    THEN c < 0 \/ (t > 0 /\ Sq(t) > 4 * a * b)
    ELSE c < 0 /\ (t < 0 \/ Sq(t) < 4 * a * b)

\* ----------------------------------------------------------------- _overlap
\* overlap_array[i, j] > 0 after the diagonal was filled with -1
PositiveOverlap_NonStrict(p, bs, i, j) ==
    /\ i # j
    /\ bs[i] + bs[j] >= 0
    /\ Sq(bs[i] + bs[j]) >= Dist2(p, i, j)

PositiveOverlap(p, bs, i, j) ==
    /\ i # j
    /\ bs[i] + bs[j] > 0
    /\ Sq(bs[i] + bs[j]) > Dist2(p, i, j)

\* overlap_array[i, j] > overlap_array[k, l]:
\* bs[i] + bs[j] - sqrt(d2(i, j)) > bs[k] + bs[l] - sqrt(d2(k, l))
OverlapGreater(p, bs, i, j, k, l) ==
    SqrtDiffGreater(Dist2(p, k, l), Dist2(p, i, j),
                    (bs[k] + bs[l]) - (bs[i] + bs[j]))

OverlapTie(p, bs, i, j, k, l) ==
    /\ ~OverlapGreater(p, bs, i, j, k, l)
    /\ ~OverlapGreater(p, bs, k, l, i, j)

\* ------------------------------------------------------- get_bonds_local
\* The binary overlap array restricted to the atoms of one cube, as the set
\* of its true entries.
bin_overlap_array(p, bs, cube) ==
    {e \in cube \X cube : PositiveOverlap(p, bs, e[1], e[2])}

BondedIn(alive, i) == {j \in Index : <<i, j>> \in alive}

indices_of_oversaturated_atoms(alive, val, cube) ==
    {i \in cube : Cardinality(BondedIn(alive, i)) - val[i] > 0}

\* j stands before k in temp_frame after sort_values(ascending=False)
SortedBefore(p, bs, tb, i, j, k) ==
    \/ OverlapGreater(p, bs, i, j, i, k)
    \/ OverlapTie(p, bs, i, j, i, k) /\ tb[j] < tb[k]

\* temp_frame.iloc[theoretical_valency[index]:].index
cut_bonds_to_OffByOne(p, bs, val, tb, alive, i) ==
    LET bonded == BondedIn(alive, i) IN
    {k \in bonded :
        Cardinality({j \in bonded : SortedBefore(p, bs, tb, i, j, k)}) >= val[i] + 1}

cut_bonds_to_Highest(p, bs, val, tb, alive, i) ==
    LET bonded == BondedIn(alive, i) IN
    {k \in bonded :
        Cardinality({j \in bonded : SortedBefore(p, bs, tb, i, k, j)}) >= val[i]}

cut_bonds_to(p, bs, val, tb, alive, i) ==
    LET bonded == BondedIn(alive, i) IN
    {k \in bonded :
        Cardinality({j \in bonded : SortedBefore(p, bs, tb, i, j, k)}) >= val[i]}

\* overlap_array[index, [cut]] = -1 ; overlap_array[[cut], index] = -1
CutEntries_OneWay(alive, i, cut) ==
    alive \ ({i} \X cut)

CutEntries(alive, i, cut) ==
    alive \ (({i} \X cut) \cup (cut \X {i}))

\* for index in indices_of_oversaturated_atoms (ascending array position)
RECURSIVE CutLoop(_, _, _, _, _, _)

CutLoop(p, bs, val, tb, alive, todo) ==
    IF todo = {} THEN alive
    ELSE LET i == SetMin(todo)
             cut == cut_bonds_to(p, bs, val, tb, alive, i)
         IN  CutLoop(p, bs, val, tb, CutEntries(alive, i, cut), todo \ {i})

\* The entries of bin_overlap_array that update_dic adds to bond_dic.
LocalEdges_CutsRegardless(p, bs, val, use_valency, tb, cube) ==
    LET bin == bin_overlap_array(p, bs, cube)
        over == indices_of_oversaturated_atoms(bin, val, cube)
    IN  IF over # {}
        THEN CutLoop(p, bs, val, tb, bin, over)
        ELSE bin

LocalEdges(p, bs, val, use_valency, tb, cube) ==
    LET bin == bin_overlap_array(p, bs, cube)
        over == indices_of_oversaturated_atoms(bin, val, cube)
    IN  IF use_valency /\ over # {}
        THEN CutLoop(p, bs, val, tb, bin, over)
        ELSE bin

\* update_dic assigning the set of a cube instead of adding to the set
update_dic_Overwrites(bond_dic, edges) ==
    [i \in Index |-> IF \E j \in Index : <<i, j>> \in edges
                     THEN {j \in Index : <<i, j>> \in edges}
                     ELSE bond_dic[i]]

update_dic(bond_dic, edges) ==
    [i \in Index |-> bond_dic[i] \cup {j \in Index : <<i, j>> \in edges}]

get_bonds_local(bond_dic, p, bs, val, use_valency, tb, cube) ==
    update_dic(bond_dic, LocalEdges(p, bs, val, use_valency, tb, cube))

\* ------------------------------------------------------ _divide_et_impera
\* All lengths in hundredths.  minimum, maximum, extent and steps per axis.
Coord(p, i, a) == p[i][a] * Scale

minimum(p, a) == SetMin({Coord(p, i, a) : i \in Index}) - Pad

maximum(p, a) == SetMax({Coord(p, i, a) : i \in Index}) + Pad

extent(p, a) == maximum(p, a) - minimum(p, a)

\* np.ceil(extent / maximum_edge_length), maximum_edge_length > 0
steps(p, a, mel) == (extent(p, a) + mel - 1) \div mel

\* A computed bound is named by axis, counter, interval and side.  With
\* difference_edge = 0 edge_big is the same double as edge_small, so the big
\* bound is the same double as the small one.
BoundKey(a, k, kind, side, de) ==
    <<a, k, IF de = 0 THEN "small" ELSE kind, side>>

\* intervall[0] <= x on doubles: decided by the exact values unless they are
\* equal, and then by the direction in which the bound was rounded.
LoLeq(lo2, x2, key, rnd) == lo2 < x2 \/ (lo2 = x2 /\ key \notin rnd)

\* x < intervall[1] on doubles
HiGreater(hi2, x2, key, rnd) == x2 < hi2 \/ (x2 = hi2 /\ key \in rnd)

\* The exact bounds of interval k of an axis, multiplied by 2 * steps so that
\* they are integers: origin1D[axis][counter] -/+ edge / 2 with
\* origin = minimum + cuboid_diagonal / 2 + counter * cuboid_diagonal,
\* edge_small = cuboid_diagonal = extent / steps, edge_big = edge_small + de.
IntervalBounds_HaloInward(s, mn, ext, de, k) ==
    [small_lo |-> 2 * s * mn + 2 * k * ext,
     small_hi |-> 2 * s * mn + 2 * (k + 1) * ext,
     big_lo   |-> 2 * s * mn + 2 * k * ext + s * de,
     big_hi   |-> 2 * s * mn + 2 * (k + 1) * ext - s * de]

IntervalBounds(s, mn, ext, de, k) ==
    [small_lo |-> 2 * s * mn + 2 * k * ext,
     small_hi |-> 2 * s * mn + 2 * (k + 1) * ext,
     big_lo   |-> 2 * s * mn + 2 * k * ext - s * de,
     big_hi   |-> 2 * s * mn + 2 * (k + 1) * ext + s * de]

\* indices[axis][counter] = [index_small, index_big]
indices_HalfOpenBothEnds(p, a, mel, de, rnd) ==
    LET s == steps(p, a, mel)
        mn == minimum(p, a)
        ext == extent(p, a)
    IN  [k \in 0..(s - 1) |->
            LET b == IntervalBounds(s, mn, ext, de, k) IN
            << {i \in Index :
                  /\ b.small_lo < 2 * s * Coord(p, i, a)
                  /\ HiGreater(b.small_hi, 2 * s * Coord(p, i, a),
                               BoundKey(a, k, "small", "hi", de), rnd)},
               {i \in Index :
                  /\ b.big_lo < 2 * s * Coord(p, i, a)
                  /\ HiGreater(b.big_hi, 2 * s * Coord(p, i, a),
                               BoundKey(a, k, "big", "hi", de), rnd)} >>]

indices(p, a, mel, de, rnd) ==
    LET s == steps(p, a, mel)
        mn == minimum(p, a)
        ext == extent(p, a)
    IN  [k \in 0..(s - 1) |->
            LET b == IntervalBounds(s, mn, ext, de, k) IN
            << {i \in Index :
                  /\ LoLeq(b.small_lo, 2 * s * Coord(p, i, a),
                           BoundKey(a, k, "small", "lo", de), rnd)
                  /\ HiGreater(b.small_hi, 2 * s * Coord(p, i, a),
                               BoundKey(a, k, "small", "hi", de), rnd)},
               {i \in Index :
                  /\ LoLeq(b.big_lo, 2 * s * Coord(p, i, a),
                           BoundKey(a, k, "big", "lo", de), rnd)
                  /\ HiGreater(b.big_hi, 2 * s * Coord(p, i, a),
                               BoundKey(a, k, "big", "hi", de), rnd)} >>]

\* cube_dic: cuboid -> <<small_cube_index, big_cube_index>>
divide_et_impera(p, mel, de, rnd) ==
    IF \A a \in Axes : steps(p, a, mel) = 1
    THEN [c \in {<<0, 0, 0>>} |-> <<Index, Index>>]
    ELSE LET ix == indices(p, 1, mel, de, rnd)
             iy == indices(p, 2, mel, de, rnd)
             iz == indices(p, 3, mel, de, rnd)
         IN  [c \in (DOMAIN ix) \X (DOMAIN iy) \X (DOMAIN iz) |->
                << ix[c[1]][1] \cap iy[c[2]][1] \cap iz[c[3]][1],
                   ix[c[1]][2] \cap iy[c[2]][2] \cap iz[c[3]][2] >>]

\* The computed bounds that coincide with the coordinate of some atom: the
\* only ones whose rounding direction decides a comparison.
TiedBoundsOfAxis(p, a, mel, de) ==
    LET s == steps(p, a, mel)
        mn == minimum(p, a)
        ext == extent(p, a)
        xs == {2 * s * Coord(p, i, a) : i \in Index}
    IN  UNION {
          LET b == IntervalBounds(s, mn, ext, de, k) IN
            (IF b.small_lo \in xs THEN {BoundKey(a, k, "small", "lo", de)} ELSE {})
            \cup (IF b.small_hi \in xs THEN {BoundKey(a, k, "small", "hi", de)} ELSE {})
            \cup (IF b.big_lo \in xs THEN {BoundKey(a, k, "big", "lo", de)} ELSE {})
            \cup (IF b.big_hi \in xs THEN {BoundKey(a, k, "big", "hi", de)} ELSE {})
          : k \in 0..(s - 1)}

TiedBounds(p, mel, de) ==
    IF \A a \in Axes : steps(p, a, mel) = 1 THEN {}
    ELSE UNION {TiedBoundsOfAxis(p, a, mel, de) : a \in Axes}

Roundings(p, mel, de) == SUBSET TiedBounds(p, mel, de)

\* ------------------------------------------------- complete_calculation
RECURSIVE ForEachCuboid(_, _, _, _, _, _, _, _)

ForEachCuboid(bond_dic, cuboid_dic, todo, p, bs, val, use_valency, tb) ==
    IF todo = {} THEN bond_dic
    ELSE LET key == CHOOSE c \in todo : TRUE
         IN  ForEachCuboid(
                 get_bonds_local(bond_dic, p, bs, val, use_valency, tb,
                                 cuboid_dic[key][2]),
                 cuboid_dic, todo \ {key}, p, bs, val, use_valency, tb)

\* get_bonds_local given the small set of each cuboid as index_of_cube
complete_calculation_SmallSets(p, bs, val, use_valency, divide, mel, de, tb, rnd) ==
    IF divide
    THEN LET cuboid_dic == divide_et_impera(p, mel, de, rnd)
         IN  ForEachCuboid(EmptyGraph,
                           [c \in DOMAIN cuboid_dic |->
                               <<cuboid_dic[c][1], cuboid_dic[c][1]>>],
                           DOMAIN cuboid_dic, p, bs, val, use_valency, tb)
    ELSE get_bonds_local(EmptyGraph, p, bs, val, use_valency, tb, Index)

complete_calculation_DropsValency(p, bs, val, use_valency, divide, mel, de, tb, rnd) ==
    IF divide
    THEN LET cuboid_dic == divide_et_impera(p, mel, de, rnd)
         IN  ForEachCuboid(EmptyGraph, cuboid_dic, DOMAIN cuboid_dic,
                           p, bs, val, FALSE, tb)
    ELSE get_bonds_local(EmptyGraph, p, bs, val, use_valency, tb, Index)

complete_calculation(p, bs, val, use_valency, divide, mel, de, tb, rnd) ==
    IF divide
    THEN LET cuboid_dic == divide_et_impera(p, mel, de, rnd)
         IN  ForEachCuboid(EmptyGraph, cuboid_dic, DOMAIN cuboid_dic,
                           p, bs, val, use_valency, tb)
    ELSE get_bonds_local(EmptyGraph, p, bs, val, use_valency, tb, Index)

\* ------------------------------------------------------------ get_bonds
\* The returned dictionary.
get_bonds_Recomputes(lk, p, bs, val, use_valency, use_lookup, divide, mel, de, tb, rnd) ==
    complete_calculation(p, bs, val, use_valency, divide, mel, de, tb, rnd)

get_bonds(lk, p, bs, val, use_valency, use_lookup, divide, mel, de, tb, rnd) ==
    IF use_lookup /\ lk # NoBondDic
    THEN lk
    ELSE complete_calculation(p, bs, val, use_valency, divide, mel, de, tb, rnd)

\* A stored graph that is never replaced
bond_dic_after_KeepsFirst(lk, use_lookup, set_lookup, value) ==
    IF lk # NoBondDic THEN lk
    ELSE IF set_lookup THEN value ELSE lk

\* self.__bond_dic after the call that returned value.
bond_dic_after(lk, use_lookup, set_lookup, value) ==
    IF use_lookup /\ lk # NoBondDic THEN lk
    ELSE IF set_lookup THEN value ELSE lk

\* ------------------------------------------------------------ input sets
\* preparation_of_variables: every atom has the properties of its element
\* unless modified_properties names it.  One element, at most one override.
XCoords == 0..MaxCoord
YCoords == {0, 1}
ZCoords == {0}
Points == XCoords \X YCoords \X ZCoords
Origin == <<0, 0, 0>>
BondSizes == {1, 2}
Valencies == {1, 2}
ElementBondSize == SetMin(BondSizes)
ElementValency == SetMin(Valencies)

PropertyDics ==
    {[bs |-> [i \in Index |-> ElementBondSize],
      val |-> [i \in Index |-> ElementValency]]}
    \cup {[bs |-> [i \in Index |-> IF i = k THEN b ELSE ElementBondSize],
           val |-> [i \in Index |-> IF i = k THEN v ELSE ElementValency]] :
            <<k, b, v>> \in Index \X BondSizes \X Valencies}

MaxEdges == {3 * (Scale \div 2), DefaultMaxEdge * Scale}
DiffEdges == {0, DefaultDiffEdge * Scale}

\* The order sort_values gives to equal overlaps: by key, up or down.
TieOrders == {[i \in Index |-> i], [i \in Index |-> NAtoms + 1 - i]}

\* The arguments of a get_bonds call.  Arguments the call does not read are
\* passed as the defaults.
GetBondsArgs ==
    {a \in [use_valency : BOOLEAN, divide_et_impera : BOOLEAN,
            maximum_edge_length : MaxEdges, difference_edge : DiffEdges,
            tb : TieOrders] :
        /\ (~a.use_valency => a.tb = [i \in Index |-> i])
        /\ (~a.divide_et_impera =>
               /\ a.maximum_edge_length = DefaultMaxEdge * Scale
               /\ a.difference_edge = DefaultDiffEdge * Scale)}

\* ----------------------------------------------------- bond detection
\* A molecule (atom 1 at the origin, no two atoms at the same place), its
\* property dictionaries and the arguments of the call are drawn; GetBonds
\* is get_bonds(use_lookup=False, set_lookup=True).
Distinct(p) == \A i, j \in DOMAIN p : p[i] = p[j] => i = j

Init ==
    /\ xyz \in [Index -> Points]
    /\ xyz[1] = Origin
    /\ Distinct(xyz)
    /\ \E d \in PropertyDics : bond_size = d.bs /\ valency = d.val
    /\ lookup = NoBondDic
    /\ op = "init"
    /\ args \in GetBondsArgs
    /\ ret = None

GetBonds ==
    \E rnd \in Roundings(xyz, args.maximum_edge_length, args.difference_edge) :
        LET value == get_bonds(lookup, xyz, bond_size, valency,
                         args.use_valency, FALSE, args.divide_et_impera,
                         args.maximum_edge_length, args.difference_edge,
                         args.tb, rnd)
        IN  /\ ret' = value
            /\ lookup' = bond_dic_after(lookup, FALSE, TRUE, value)
            /\ op' = "get_bonds"
            /\ UNCHANGED <<xyz, bond_size, valency, args>>

Next == GetBonds

Spec == Init /\ [][Next]_vars

\* ======================================================= bond detection
\* What the claims speak of, stated on the inputs alone.
Called == op = "get_bonds"

\* radius(A) + radius(B) - distance(A, B) > 0
StrictlyOverlapping(A, B) ==
    /\ bond_size[A] + bond_size[B] > 0
    /\ Dist2(xyz, A, B) < Sq(bond_size[A] + bond_size[B])

ZeroOverlap(A, B) == Dist2(xyz, A, B) = Sq(bond_size[A] + bond_size[B])

Candidates(A) == {B \in Index \ {A} : StrictlyOverlapping(A, B)}

Oversaturated(A) == Cardinality(Candidates(A)) > valency[A]

\* One arbitration pass: no partitioning, or a single cuboid.
SinglePass ==
    \/ ~args.divide_et_impera
    \/ \A a \in Axes : steps(xyz, a, args.maximum_edge_length) = 1

\* No two candidate bonds have the same overlap.
NoTies ==
    \A A, B, C, D \in Index :
        (/\ B \in Candidates(A) /\ D \in Candidates(C)
         /\ {A, B} # {C, D})
        => ~OverlapTie(xyz, bond_size, A, B, C, D)

Removed(A) == Candidates(A) \ ret[A]

\* The candidate bonds of A below its valency highest overlaps.
LowestOverlap(A) ==
    {B \in Candidates(A) :
        Cardinality({C \in Candidates(A) :
            OverlapGreater(xyz, bond_size, A, C, A, B)}) >= valency[A]}

\* C1: the returned bond graph is symmetric, B in graph[A] iff A in graph[B],
\* for every molecule and every combination of the arguments.
C1_Symmetric ==
    Called => \A A, B \in Index : (B \in ret[A]) <=> (A \in ret[B])

C1_Witness ==
    /\ Called /\ args.use_valency /\ args.divide_et_impera
    /\ \E A \in Index : Removed(A) # {} /\ ret[A] # {}

\* C3: with use_valency and one arbitration pass no atom of the returned
\* graph has more neighbours than its valency.
C3_DegreeWithinValency ==
    (Called /\ args.use_valency /\ SinglePass)
    => \A A \in Index : Cardinality(ret[A]) <= valency[A]

C3_Witness ==
    /\ Called /\ args.use_valency /\ SinglePass
    /\ \E A \in Index : Oversaturated(A) /\ Cardinality(ret[A]) = valency[A]

\* C4 as stated: without ties every oversaturated atom loses exactly
\* (degree - valency) candidate bonds, its lowest overlaps, also when
\* oversaturated atoms are bonded to each other.
C4_Original ==
    (Called /\ args.use_valency /\ SinglePass /\ NoTies)
    => \A A \in Index : Oversaturated(A) =>
          /\ Cardinality(Removed(A)) = Cardinality(Candidates(A)) - valency[A]
          /\ Removed(A) = LowestOverlap(A)

\* C4 amended: without ties an oversaturated atom none of whose candidate
\* neighbours is oversaturated loses exactly (degree - valency) candidate
\* bonds, and they are its lowest overlaps.
C4_LowestCutWhenNeighboursSaturated ==
    (Called /\ args.use_valency /\ SinglePass /\ NoTies)
    => \A A \in Index :
          (Oversaturated(A) /\ \A B \in Candidates(A) : ~Oversaturated(B)) =>
              /\ Cardinality(Removed(A))
                    = Cardinality(Candidates(A)) - valency[A]
              /\ Removed(A) = LowestOverlap(A)

C4_Witness ==
    /\ Called /\ args.use_valency /\ SinglePass /\ NoTies
    /\ \E A \in Index :
          /\ Oversaturated(A) /\ \A B \in Candidates(A) : ~Oversaturated(B)
          /\ Removed(A) # {} /\ ret[A] # {}

\* C9: when every axis needs exactly one step, partitioning returns the
\* graph that the same call returns without partitioning.
C9_OneCuboidEqualsUnpartitioned ==
    (/\ Called /\ args.divide_et_impera
     /\ \A a \in Axes : steps(xyz, a, args.maximum_edge_length) = 1)
    => ret = get_bonds_local(EmptyGraph, xyz, bond_size, valency,
                             args.use_valency, args.tb, Index)

C9_Witness ==
    /\ Called /\ args.divide_et_impera /\ args.use_valency
    /\ \A a \in Axes : steps(xyz, a, args.maximum_edge_length) = 1
    /\ \E A \in Index : Removed(A) # {} /\ ret[A] # {}

\* C10: without use_valency and without partitioning B is in graph[A] iff
\* A # B and radius(A) + radius(B) - distance(A, B) > 0; an overlap of
\* exactly zero is no bond and no atom is bonded to itself.
C10_BondIffPositiveOverlap ==
    (Called /\ ~args.use_valency /\ ~args.divide_et_impera)
    => \A A, B \in Index :
          (B \in ret[A]) <=> (A # B /\ StrictlyOverlapping(A, B))

C10_Witness ==
    /\ Called /\ ~args.use_valency /\ ~args.divide_et_impera
    /\ \E A, B, C \in Index :
          /\ A # B /\ ZeroOverlap(A, B) /\ B \notin ret[A]
          /\ C \in ret[A]

\* The atom pairs that one call of get_bonds_local sees together: all pairs
\* without partitioning, else the pairs inside the large set of a cuboid.
SeenTogether(rnd) ==
    IF ~args.divide_et_impera THEN Index \X Index
    ELSE LET cuboid_dic == divide_et_impera(xyz, args.maximum_edge_length,
                                            args.difference_edge, rnd)
         IN  UNION {cuboid_dic[c][2] \X cuboid_dic[c][2] : c \in DOMAIN cuboid_dic}

\* C12: with use_valency disabled get_bonds removes no bond, oversaturated
\* atoms or not: the graph holds every pair with positive overlap that a
\* call of get_bonds_local sees together, and nothing else.
C12_NoBondRemoved ==
    (Called /\ ~args.use_valency)
    => \E rnd \in Roundings(xyz, args.maximum_edge_length, args.difference_edge) :
          \A A, B \in Index :
             (B \in ret[A]) <=> (/\ A # B
                                 /\ StrictlyOverlapping(A, B)
                                 /\ <<A, B>> \in SeenTogether(rnd))

C12_Witness ==
    /\ Called /\ ~args.use_valency
    /\ \E A \in Index : Oversaturated(A) /\ Cardinality(ret[A]) > valency[A]

\* ============================================================ partitioner
\* Molecules on a wider grid (spacing 4), so that with the smaller
\* maximum_edge_length an axis is cut into up to six intervals.
SpreadPoints == {<<4 * q[1] - 2, 4 * q[2] - 2, q[3]>> : q \in Points}

ElementProperties ==
    [bs |-> [i \in Index |-> ElementBondSize],
     val |-> [i \in Index |-> ElementValency]]

InitCells ==
    /\ xyz \in [Index -> SpreadPoints]
    /\ Distinct(xyz)
    /\ bond_size = ElementProperties.bs
    /\ valency = ElementProperties.val
    /\ lookup = NoBondDic
    /\ op = "init"
    /\ args \in [maximum_edge_length : MaxEdges, difference_edge : DiffEdges]
    /\ ret = None

DivideEtImpera ==
    \E rnd \in Roundings(xyz, args.maximum_edge_length, args.difference_edge) :
        /\ ret' = divide_et_impera(xyz, args.maximum_edge_length,
                                   args.difference_edge, rnd)
        /\ op' = "_divide_et_impera"
        /\ UNCHANGED <<xyz, bond_size, valency, lookup, args>>

NextCells == DivideEtImpera

SpecCells == InitCells /\ [][NextCells]_vars

\* C2: the small sets of the returned cuboids are pairwise disjoint and
\* their union is the set of all atom keys.
C2_SmallSetsPartition ==
    op = "_divide_et_impera" =>
        /\ \A c, d \in DOMAIN ret : c # d => ret[c][1] \cap ret[d][1] = {}
        /\ UNION {ret[c][1] : c \in DOMAIN ret} = Index

\* C11: with a non-negative difference_edge the large set of every
\* returned cuboid contains its small set, so an atom is in the large set
\* of every cuboid whose small set holds it.
C11_LargeContainsSmall ==
    (op = "_divide_et_impera" /\ args.difference_edge >= 0)
    => \A c \in DOMAIN ret : ret[c][1] \subseteq ret[c][2]

C11_Witness ==
    /\ op = "_divide_et_impera"
    /\ args.difference_edge > 0
    /\ Cardinality(DOMAIN ret) > 1
    /\ \E c \in DOMAIN ret : ret[c][1] # {} /\ ret[c][1] # ret[c][2]

\* ============================================================ connectivity
RECURSIVE SetToSeq(_)

SetToSeq(S) ==
    IF S = {} THEN <<>>
    ELSE <<SetMin(S)>> \o SetToSeq(S \ {SetMin(S)})

SeqToSet(q) == {q[n] : n \in DOMAIN q}

\* for index in included_atoms_list: the list grows while it is iterated.
RECURSIVE Worklist_NoAppend(_, _, _, _, _)

Worklist_NoAppend(list, pos, included_atoms_set, bond_dic, exclude) ==
    IF pos > Len(list) THEN SeqToSet(list)
    ELSE LET new_atoms == (bond_dic[list[pos]] \ included_atoms_set) \ exclude
         IN  Worklist_NoAppend(list, pos + 1,
                      new_atoms \cup included_atoms_set, bond_dic, exclude)

RECURSIVE Worklist(_, _, _, _, _)

Worklist(list, pos, included_atoms_set, bond_dic, exclude) ==
    IF pos > Len(list) THEN SeqToSet(list)
    ELSE LET new_atoms == (bond_dic[list[pos]] \ included_atoms_set) \ exclude
         IN  Worklist(list \o SetToSeq(new_atoms), pos + 1,
                      new_atoms \cup included_atoms_set, bond_dic, exclude)

\* _connected_to(index_of_atom, bond_dic, exclude)
connected_to_set(index_of_atom, bond_dic, exclude) ==
    LET included_atoms_set ==
            ({index_of_atom} \cup bond_dic[index_of_atom]) \ exclude
    IN  Worklist(SetToSeq(included_atoms_set), 1, included_atoms_set,
                 bond_dic, exclude)

\* new_atoms.pop(): some element, here the first or the last by key.
Pop(S, order) == CHOOSE x \in S : \A y \in S : order[x] <= order[y]

\* while not new_atoms == set([])
RECURSIVE PreserveLoop(_, _, _, _)

PreserveLoop(included_atoms_set, new_atoms, bond_dic, order) ==
    IF new_atoms = {} THEN included_atoms_set
    ELSE LET index_of_interest == Pop(new_atoms, order)
             grown == included_atoms_set \cup
                        connected_to_set(index_of_interest, bond_dic,
                                         included_atoms_set)
         IN  PreserveLoop(grown, (new_atoms \ {index_of_interest}) \ grown,
                          bond_dic, order)

\* _preserve_bonds: the index of the returned frame
preserve_bonds_NeighboursOnly(sliced, bond_dic, order) ==
    sliced \cup UNION {bond_dic[atom] : atom \in sliced}

preserve_bonds(sliced, bond_dic, order) ==
    LET new_atoms == UNION {bond_dic[atom] : atom \in sliced} \ sliced
    IN  PreserveLoop(sliced, new_atoms, bond_dic, order)

\* The graphs get_bonds can have stored: symmetric, no atom bonded to itself.
SymmetricGraphs ==
    {g \in [Index -> SUBSET Index] :
        \A A, B \in Index : A \notin g[A] /\ ((B \in g[A]) <=> (A \in g[B]))}

\* A straight chain of atoms one unit apart.
ChainMolecule == [i \in Index |-> <<i - 1, 0, 0>>]

\* self.get_bonds(use_lookup=True) with every other argument at its default
DefaultGetBonds(lk, p, bs, val) ==
    get_bonds(lk, p, bs, val, FALSE, TRUE, TRUE, DefaultMaxEdge * Scale,
              DefaultDiffEdge * Scale, [i \in Index |-> i], {})

ConnectedToArgs == [index_of_atom : Index, exclude : SUBSET Index]

PreserveBondsArgs == [sliced : SUBSET Index, pop : TieOrders]

InitConn ==
    /\ xyz = ChainMolecule
    /\ bond_size = ElementProperties.bs
    /\ valency = ElementProperties.val
    /\ lookup \in SymmetricGraphs \cup {NoBondDic}
    /\ op = "init"
    /\ args \in ConnectedToArgs \cup PreserveBondsArgs
    /\ ret = None

\* self._connected_to(index_of_atom, self.get_bonds(use_lookup=True), exclude)
ConnectedTo ==
    /\ args \in ConnectedToArgs
    /\ LET bond_dic == DefaultGetBonds(lookup, xyz, bond_size, valency)
       IN  /\ ret' = connected_to_set(args.index_of_atom, bond_dic, args.exclude)
           /\ lookup' = bond_dic_after(lookup, TRUE, TRUE, bond_dic)
    /\ op' = "_connected_to"
    /\ UNCHANGED <<xyz, bond_size, valency, args>>

PreserveBonds ==
    /\ args \in PreserveBondsArgs
    /\ LET bond_dic == DefaultGetBonds(lookup, xyz, bond_size, valency)
       IN  /\ ret' = preserve_bonds(args.sliced, bond_dic, args.pop)
           /\ lookup' = bond_dic_after(lookup, TRUE, TRUE, bond_dic)
    /\ op' = "_preserve_bonds"
    /\ UNCHANGED <<xyz, bond_size, valency, args>>

\* connected_to(index_of_atom, exclude): the keys of the returned Cartesian.
\* The call at line 359 passes exclude=None whatever the caller gave.
ConnectedToMethod ==
    /\ args \in ConnectedToArgs
    /\ LET bond_dic == DefaultGetBonds(lookup, xyz, bond_size, valency)
       IN  /\ ret' = connected_to_set(args.index_of_atom, bond_dic, {})
           /\ lookup' = bond_dic_after(lookup, TRUE, TRUE, bond_dic)
    /\ op' = "connected_to"
    /\ UNCHANGED <<xyz, bond_size, valency, args>>

NextConn == ConnectedTo \/ PreserveBonds \/ ConnectedToMethod

SpecConn == InitConn /\ [][NextConn]_vars

\* The connected component of A: everything joined to A by a path of bonds.
RECURSIVE Closure(_, _)

Closure(g, S) ==
    LET T == S \cup UNION {g[x] : x \in S}
    IN  IF T = S THEN S ELSE Closure(g, T)

Component(g, A) == Closure(g, {A})

\* C5: on a symmetric graph and without exclusions _connected_to returns
\* the connected component of its seed, hence the same set from every atom
\* of that component.
C5_ReachableIsComponent ==
    (op = "_connected_to" /\ args.exclude = {})
    => /\ ret = Component(lookup, args.index_of_atom)
       /\ \A B \in ret : connected_to_set(B, lookup, {}) = ret

C5_Witness ==
    /\ op = "_connected_to" /\ args.exclude = {}
    /\ \E B \in ret : B # args.index_of_atom /\ B \notin lookup[args.index_of_atom]

\* C6: _preserve_bonds returns a superset of the subset that no bond leaves,
\* so no connected component is split.
C6_ClosedUnderBonds ==
    op = "_preserve_bonds"
    => /\ args.sliced \subseteq ret
       /\ \A A \in ret : lookup[A] \subseteq ret
       /\ \A A \in ret : Component(lookup, A) \subseteq ret

C6_Witness ==
    /\ op = "_preserve_bonds"
    /\ \E A \in ret \ args.sliced :
          \A B \in args.sliced : A \notin lookup[B]

\* The bond graph without the atoms of X.
Without(g, X) == [A \in Index |-> IF A \in X THEN {} ELSE g[A] \ X]

\* C17: the molecule connected_to returns holds no atom listed in exclude
\* and only atoms joined to the seed by a path that avoids the excluded atoms.
C17_ExcludeHonoured ==
    op = "connected_to"
    => /\ ret \cap args.exclude = {}
       /\ ret \subseteq Closure(Without(lookup, args.exclude), {args.index_of_atom})

\* ============================================================ build order
\* The molecules of this part have two atoms more than the others, so that
\* an entry with three references exists and a broken chain has more than
\* one atom to continue with.  Their positions are on a grid of
\* Spacing length units and xyz holds the grid coordinates; a distance in
\* length units is Spacing times the grid distance.
BuildAtoms == 1..(NAtoms + 2)

Spacing == 4

ChainThreshold == 5

FallbackThreshold == 7

Recursions == {0, 1, 2}

\* idxmin and sort_values meet equal distances; which of the equal atoms
\* comes first is the first or the last of them in frame order.
BuildTies == {"first", "last"}

Raised(e) == [raises |-> e, value |-> <<>>]

Returned(v) == [raises |-> None, value |-> v]

\* An element of a buildlist: a list [atom, references...] or a bare atom key.
Entry(q) == [is_list |-> TRUE, v |-> q]

Bare(k) == [is_list |-> FALSE, v |-> <<k>>]

RemoveAt(q, n) == SubSeq(q, 1, n - 1) \o SubSeq(q, n + 1, Len(q))

\* list.remove(x)
Remove(q, x) == RemoveAt(q, SetMin({n \in DOMAIN q : q[n] = x}))

RECURSIVE SumCoord(_, _, _)

SumCoord(p, S, a) ==
    IF S = {} THEN 0
    ELSE LET i == SetMin(S) IN p[i][a] + SumCoord(p, S \ {i}, a)

\* Squared distance of atom i from the topologic center (the average of
\* all locations), times the square of the number of atoms.
CenterDist2(p, i) ==
    LET n == Cardinality(DOMAIN p)
    IN  Sq(n * p[i][1] - SumCoord(p, DOMAIN p, 1))
        + Sq(n * p[i][2] - SumCoord(p, DOMAIN p, 2))
        + Sq(n * p[i][3] - SumCoord(p, DOMAIN p, 3))

\* bond_length > threshold, in length units
LongerThan(p, i, j, threshold) == Sq(Spacing) * Dist2(p, i, j) > Sq(threshold)

\* sqrt(a1) + sqrt(b1) < sqrt(a2) + sqrt(b2)
SumLess(a1, b1, a2, b2) ==
    SqrtDiffGreater(4 * a2 * b2, 4 * a1 * b1, (a1 + b1) - (a2 + b2))

\* Series.idxmin over the atoms of cand; lt[i, j] says that the value of
\* atom i is less than that of atom j.
idxmin(cand, lt, tie) ==
    LET least == {n \in DOMAIN cand : \A m \in DOMAIN cand : ~lt[cand[m], cand[n]]}
    IN  cand[IF tie = "first" THEN SetMin(least) ELSE SetMax(least)]

zero_reference(p, to_be_built, tie) ==
    idxmin(to_be_built,
           [i, j \in DOMAIN p |-> CenterDist2(p, i) < CenterDist2(p, j)], tie)

one_reference(p, to_be_built, previous, tie) ==
    idxmin(to_be_built,
           [i, j \in DOMAIN p |-> Dist2(p, i, previous) < Dist2(p, j, previous)],
           tie)

two_references(p, to_be_built, previous, before_previous, tie) ==
    idxmin(to_be_built,
           [i, j \in DOMAIN p |->
               SumLess(Dist2(p, i, previous), Dist2(p, i, before_previous),
                       Dist2(p, j, previous), Dist2(p, j, before_previous))],
           tie)

\* The local names of _order_of_building.  index and previous hold an atom
\* key, or a one-element list of keys (is_list) after already_built[-1:].
Unbound == [atom |-> 0, is_list |-> FALSE]

Key(k) == [atom |-> k, is_list |-> FALSE]

KeyList(k) == [atom |-> k, is_list |-> TRUE]

Built(st, index) ==
    [st EXCEPT !.already_built = Append(@, index),
               !.to_be_built = Remove(@, index),
               !.index = Key(index)]

\* One pass of the loop at recursion == 2
Level2Step(p, st, tie) ==
    IF Len(st.already_built) > 1 \/ st.mode = 2
    THEN LET index == two_references(p, st.to_be_built, st.index.atom,
                                     st.previous.atom, tie)
             s1 == [st EXCEPT !.previous = st.index]
         IN  IF LongerThan(p, index, st.index.atom, FallbackThreshold)
             THEN Built([s1 EXCEPT !.mode = 1],
                        zero_reference(p, st.to_be_built, tie))
             ELSE Built(s1, index)
    ELSE IF Len(st.already_built) = 1 \/ st.mode = 1
    THEN Built([st EXCEPT !.previous = st.index, !.mode = 2],
               one_reference(p, st.to_be_built, st.index.atom, tie))
    ELSE Built([st EXCEPT !.mode = 1], zero_reference(p, st.to_be_built, tie))

\* The chain of level 1 without the test of the bond length
Level1Step_NoFallback(p, st, tie) ==
    IF Len(st.already_built) > 0
    THEN LET index == one_reference(p, st.to_be_built, st.index.atom, tie)
             s1 == [st EXCEPT !.previous = st.index]
         IN  IF s1.previous.is_list
             THEN [s1 EXCEPT !.raises = "TypeError"]
             ELSE Built(s1, index)
    ELSE Built(st, zero_reference(p, st.to_be_built, tie))

\* One pass of the loop at recursion == 1; distance() looks both atoms up
\* with location([index, previous]) and a list inside that list is a TypeError.
Level1Step(p, st, tie) ==
    IF Len(st.already_built) > 0
    THEN LET index == one_reference(p, st.to_be_built, st.index.atom, tie)
             s1 == [st EXCEPT !.previous = st.index]
         IN  IF s1.previous.is_list
             THEN [s1 EXCEPT !.raises = "TypeError"]
             ELSE IF LongerThan(p, index, st.index.atom, ChainThreshold)
             THEN Built(s1, zero_reference(p, st.to_be_built, tie))
             ELSE Built(s1, index)
    ELSE Built(st, zero_reference(p, st.to_be_built, tie))

\* for _ in range(number_of_atoms_to_add)
RECURSIVE BuildLoop(_, _, _, _, _)

BuildLoop(p, st, recursion, count, tie) ==
    IF count = 0 \/ st.raises # None THEN st
    ELSE BuildLoop(p,
                   IF recursion = 2 THEN Level2Step(p, st, tie)
                                    ELSE Level1Step(p, st, tie),
                   recursion, count - 1, tie)

RECURSIVE RemoveAll(_, _)

RemoveAll(q, gone) ==
    IF gone = <<>> THEN q ELSE RemoveAll(Remove(q, Head(gone)), Tail(gone))

\* _order_of_building(already_built=buildlist) at the given recursion level
order_of_building(p, buildlist, recursion, tie) ==
    LET already_built == [n \in DOMAIN buildlist |-> buildlist[n].v[1]]
        to_be_built == RemoveAll(SetToSeq(DOMAIN p), already_built)
        l == Len(already_built)
        st0 == [already_built |-> already_built,
                to_be_built |-> to_be_built,
                index |-> IF l > 1 THEN Key(already_built[l])
                          ELSE IF l = 1 THEN KeyList(already_built[l])
                          ELSE Unbound,
                previous |-> IF l > 1 THEN Key(already_built[l - 1]) ELSE Unbound,
                mode |-> 0,
                raises |-> None]
        st == IF recursion = 0
              THEN [st0 EXCEPT !.already_built = already_built \o to_be_built]
              ELSE BuildLoop(p, st0, recursion, Len(to_be_built), tie)
    IN  IF st.raises # None THEN Raised(st.raises)
        ELSE Returned([n \in DOMAIN st.already_built |->
                          IF n <= Len(buildlist) THEN buildlist[n]
                          ELSE Bare(st.already_built[n])])

\* ------------------------------------------------------------ _get_reference
Min2(a, b) == IF a < b THEN a ELSE b

\* distance_frame(...).sort_values(by='distance').iloc[0:k].index
RECURSIVE NearestFirst(_, _, _, _, _)

NearestFirst(p, atom, cand, k, tie) ==
    IF k = 0 THEN <<>>
    ELSE LET r == idxmin(cand,
                         [i, j \in DOMAIN p |-> Dist2(p, i, atom) < Dist2(p, j, atom)],
                         tie)
         IN  <<r>> \o NearestFirst(p, atom, Remove(cand, r), k - 1, tie)

\* The except KeyError branch of second_atom, third_atom, other_atom for the
\* atom at position i of the order: references from already_built.
computed_entry_AnyAtom(p, order, i, tie) ==
    <<order[i]>> \o NearestFirst(p, order[i], Remove(order, order[i]),
                                 Min2(i - 1, 3), tie)

computed_entry(p, order, i, tie) ==
    <<order[i]>> \o NearestFirst(p, order[i], SubSeq(order, 1, i - 1),
                                 Min2(i - 1, 3), tie)

\* recursion == 0: the atoms just before in the order
preceding_entry(order, i) ==
    [k \in 1..(1 + Min2(i - 1, 3)) |-> order[i - (k - 1)]]

\* _get_reference(order_of_building=buildlist_given, recursion)
get_reference(p, buildlist_given, recursion, tie) ==
    LET order == [n \in DOMAIN buildlist_given |-> buildlist_given[n].v[1]]
        n_atoms == Len(order)
        Defined(a) == \E n \in DOMAIN buildlist_given :
                          buildlist_given[n].is_list /\ buildlist_given[n].v[1] = a
        \* a later element with the same key replaces an earlier one
        defined_entries(a) ==
            buildlist_given[SetMax({n \in DOMAIN buildlist_given :
                buildlist_given[n].is_list /\ buildlist_given[n].v[1] = a})].v
    IN  IF recursion > 0
        THEN IF n_atoms = 1 THEN Raised("IndexError")
             ELSE Returned([i \in 1..n_atoms |->
                     IF i = 1 THEN <<order[1]>>
                     ELSE IF Defined(order[i]) THEN defined_entries(order[i])
                     ELSE computed_entry(p, order, i, tie)])
        ELSE Returned([i \in 1..n_atoms |-> preceding_entry(order, i)])

\* ------------------------------------------------------------ to_zmat
Injective(q) == \A m, n \in DOMAIN q : q[m] = q[n] => m = n

\* The atoms of a caller's buildlist: up to three, as in the three anchors
\* of a fragment.
PrefixAtoms == UNION {{q \in [1..l -> BuildAtoms] : Injective(q)} : l \in 0..3}

\* Every entry refers to the entries before it.
Chained(q) ==
    [n \in DOMAIN q |-> Entry([k \in 1..n |-> q[n - (k - 1)]])]

\* The last reference of an entry is an atom that is not in the buildlist.
Anchored(q) ==
    LET x == SetMax(BuildAtoms \ {q[n] : n \in DOMAIN q})
    IN  [n \in DOMAIN q |->
            Entry([k \in 1..n |-> IF k > 1 /\ k = n THEN x ELSE q[n - (k - 1)]])]

Buildlists == {Chained(q) : q \in PrefixAtoms} \cup {Anchored(q) : q \in PrefixAtoms}

LexLess(u, v) ==
    \/ u[1] < v[1]
    \/ u[1] = v[1] /\ u[2] < v[2]
    \/ u[1] = v[1] /\ u[2] = v[2] /\ u[3] < v[3]

InitBuild ==
    /\ xyz \in [BuildAtoms -> Points]
    /\ \A i, j \in BuildAtoms : i < j => LexLess(xyz[i], xyz[j])
    /\ bond_size = [i \in BuildAtoms |-> ElementBondSize]
    /\ valency = [i \in BuildAtoms |-> ElementValency]
    /\ lookup = NoBondDic
    /\ op = "init"
    /\ args \in [buildlist : Buildlists, recursion_level : Recursions]
    /\ ret = None

\* building_order = _order_of_building(already_built=buildlist, recursion=recursion_level)
OrderOfBuilding ==
    /\ op = "init"
    /\ \E tie \in BuildTies :
          ret' = order_of_building(xyz, args.buildlist, args.recursion_level, tie)
    /\ op' = "_order_of_building"
    /\ UNCHANGED <<xyz, bond_size, valency, lookup, args>>

\* _get_reference(order_of_building=building_order, recursion=recursion_level)
GetReference ==
    /\ op = "_order_of_building"
    /\ ret.raises = None
    /\ \E tie \in BuildTies :
          ret' = get_reference(xyz, ret.value, args.recursion_level, tie)
    /\ op' = "_get_reference"
    /\ UNCHANGED <<xyz, bond_size, valency, lookup, args>>

NextBuild == OrderOfBuilding \/ GetReference

SpecBuild == InitBuild /\ [][NextBuild]_vars

\* C7: for every recursion level and every buildlist _order_of_building
\* returns, and what it returns holds every atom key of the molecule
\* exactly once.
C7_Permutation ==
    op = "_order_of_building"
    => /\ ret.raises = None
       /\ Len(ret.value) = Cardinality(BuildAtoms)
       /\ {ret.value[n].v[1] : n \in DOMAIN ret.value} = BuildAtoms

Placed(i) == {ret.value[j][1] : j \in 1..(i - 1)}

References(i) == {ret.value[i][k] : k \in 2..Len(ret.value[i])}

GotReference == op = "_get_reference" /\ ret.raises = None

Verbatim(i) ==
    /\ args.recursion_level > 0
    /\ i > 1
    /\ \E n \in DOMAIN args.buildlist : args.buildlist[n].v[1] = ret.value[i][1]

AtomAt(n) == ret.value[n].v[1]

\* C20: at recursion level 2, when an atom chosen by the loop is farther
\* than the threshold of 7 from the atom built just before it, every atom
\* that was not yet built at that moment is farther than the threshold from
\* that atom.
C20_FarOnlyWithoutAlternative ==
    (op = "_order_of_building" /\ args.recursion_level = 2 /\ ret.raises = None)
    => \A n \in (Len(args.buildlist) + 1)..Len(ret.value) :
          (n > 1 /\ LongerThan(xyz, AtomAt(n), AtomAt(n - 1), FallbackThreshold))
          => \A y \in BuildAtoms \ {AtomAt(m) : m \in 1..(n - 1)} :
                LongerThan(xyz, y, AtomAt(n - 1), FallbackThreshold)

\* The atoms not yet built when place n is filled
UnbuiltAt(n) == BuildAtoms \ {AtomAt(m) : m \in 1..(n - 1)}

NearestToCenter(a, S) == \A y \in S : CenterDist2(xyz, a) <= CenterDist2(xyz, y)

NearestTo(a, b, S) == \A y \in S : Dist2(xyz, a, b) <= Dist2(xyz, y, b)

\* Every not yet built atom is farther than 5 from the atom built last
ChainBroken(n) ==
    \A y \in UnbuiltAt(n) : LongerThan(xyz, y, AtomAt(n - 1), ChainThreshold)

NoPrefixLevel1 ==
    op = "_order_of_building" /\ args.recursion_level = 1 /\ args.buildlist = <<>>

PrefixOf(b) == {b[n].v[1] : n \in DOMAIN b}

\* The order starts with the entries of the prefix as they were given and
\* goes on with every other atom once; at level 0 these follow in the
\* order of the frame.
KeepsPrefix ==
    /\ ret.raises = None
    /\ Len(ret.value) = Cardinality(BuildAtoms)
    /\ \A n \in DOMAIN args.buildlist : ret.value[n] = args.buildlist[n]
    /\ \A n \in (Len(args.buildlist) + 1)..Len(ret.value) : ~ret.value[n].is_list
    /\ {AtomAt(n) : n \in (Len(args.buildlist) + 1)..Len(ret.value)}
          = BuildAtoms \ PrefixOf(args.buildlist)
    /\ args.recursion_level = 0
       => \A m, n \in (Len(args.buildlist) + 1)..Len(ret.value) :
             m < n => AtomAt(m) < AtomAt(n)

\* C25: with a prefix supplied, at every recursion level the returned order
\* begins with the prefix entries in their order, each with its references,
\* followed by the remaining atoms; at level 0 the remaining atoms keep
\* their input order.
C25_PrefixKept ==
    (op = "_order_of_building" /\ args.buildlist # <<>>) => KeepsPrefix

\* ============================================================ lookup
\* One instance over several calls of get_bonds, with xyz_frame changed by
\* hand in between.  The molecules are straight chains with equal gaps.
LookupMolecules == {[i \in Index |-> <<(i - 1) * g, 0, 0>>] : g \in 1..MaxCoord}

LookupCallArgs ==
    [use_valency : BOOLEAN, use_lookup : BOOLEAN, set_lookup : BOOLEAN,
     divide_et_impera : BOOLEAN, tb : TieOrders]

\* complete_calculation for the call a on the current frame
Computed(a, rnd) ==
    complete_calculation(xyz, bond_size, valency, a.use_valency,
                         a.divide_et_impera, DefaultMaxEdge * Scale,
                         DefaultDiffEdge * Scale, a.tb, rnd)

InitLookup ==
    /\ xyz \in LookupMolecules
    /\ bond_size = ElementProperties.bs
    /\ valency = ElementProperties.val
    /\ lookup = NoBondDic
    /\ op = "init"
    /\ args = None
    /\ ret = None

\* get_bonds(use_valency, use_lookup, set_lookup, divide_et_impera)
GetBondsCall ==
    \E a \in LookupCallArgs :
      \E rnd \in Roundings(xyz, DefaultMaxEdge * Scale, DefaultDiffEdge * Scale) :
        LET value == get_bonds(lookup, xyz, bond_size, valency, a.use_valency,
                               a.use_lookup, a.divide_et_impera,
                               DefaultMaxEdge * Scale, DefaultDiffEdge * Scale,
                               a.tb, rnd)
        IN  /\ ret' = value
            /\ lookup' = bond_dic_after(lookup, a.use_lookup, a.set_lookup, value)
            /\ args' = a
            /\ op' = "get_bonds"
            /\ UNCHANGED <<xyz, bond_size, valency>>

\* instance.xyz_frame is assigned or edited by the caller
ChangeFrame ==
    /\ xyz' \in LookupMolecules \ {xyz}
    /\ op' = "xyz_frame"
    /\ UNCHANGED <<bond_size, valency, lookup, args, ret>>

NextLookup == GetBondsCall \/ ChangeFrame

SpecLookup == InitLookup /\ [][NextLookup]_vars

\* C13: a call with use_lookup returns the stored graph as it is whenever
\* one is stored, whatever the other arguments and the present positions,
\* and leaves it stored; with none stored it computes the graph and stores
\* it exactly when set_lookup is true.
C13_ReadThroughOrCompute ==
    [][(op' = "get_bonds" /\ args'.use_lookup)
       => IF lookup # NoBondDic
          THEN ret' = lookup /\ lookup' = lookup
          ELSE /\ \E rnd \in Roundings(xyz, DefaultMaxEdge * Scale,
                                       DefaultDiffEdge * Scale) :
                     ret' = Computed(args', rnd)
               /\ lookup' = IF args'.set_lookup THEN ret' ELSE NoBondDic]_vars

\* A stored graph was returned that differs from what the call would compute.
C13_Witness ==
    /\ op = "get_bonds" /\ args.use_lookup
    /\ ret = lookup
    /\ \A rnd \in Roundings(xyz, DefaultMaxEdge * Scale, DefaultDiffEdge * Scale) :
          ret # Computed(args, rnd)

\* C27: a call get_bonds(use_lookup=False, set_lookup=True) stores the
\* graph it computes from the present positions and its own arguments,
\* whatever was stored before; a call with set_lookup=False and a change of
\* the positions leave the stored graph, or its absence, as it is; so the
\* next call with use_lookup returns the graph stored last.
C27_StoreReplacedOnRequest ==
    [][/\ (op' = "get_bonds" /\ ~args'.use_lookup /\ args'.set_lookup)
          => /\ lookup' = ret'
             /\ \E rnd \in Roundings(xyz, DefaultMaxEdge * Scale,
                                     DefaultDiffEdge * Scale) :
                   ret' = Computed(args', rnd)
       /\ (op' = "get_bonds" /\ ~args'.set_lookup) => lookup' = lookup
       /\ op' = "xyz_frame" => lookup' = lookup
       /\ (op' = "get_bonds" /\ args'.use_lookup /\ lookup # NoBondDic)
          => ret' = lookup]_vars

\* A graph computed with valency cutting was stored by a call that did not
\* use the lookup: some atom has fewer bonds than overlapping neighbours.
C27_Witness ==
    /\ op = "get_bonds" /\ ~args.use_lookup /\ args.set_lookup
    /\ args.use_valency
    /\ lookup = ret
    /\ \E A \in Index : Cardinality(ret[A]) < Cardinality(Candidates(A))

\* ============================================================ geometry
\* location, distance, angle_degrees and dihedral_degrees.  A distance is
\* held as its square.  An angle is held by its cosine: the sign of the
\* cosine and its square as a reduced fraction.  utilities.normalize and
\* utilities.give_angle divide by the length of a vector, and the quotient
\* for a vector of length zero is not a number (nan).
MissingKey == NAtoms + 1

Keys == Index \cup {MissingKey}

\* location(indexlist) with a list of keys
location_Unchecked(p, indexlist) ==
    Returned([n \in DOMAIN indexlist |->
                 IF indexlist[n] \in DOMAIN p THEN p[indexlist[n]] ELSE <<0, 0, 0>>])

location(p, indexlist) ==
    IF \E n \in DOMAIN indexlist : indexlist[n] \notin DOMAIN p
    THEN Raised("KeyError")
    ELSE Returned([n \in DOMAIN indexlist |-> p[indexlist[n]]])

\* location(index) with one key: set(index) is a TypeError and the except
\* branch tests set([index]); the row itself is returned.
location_of_key(p, index) ==
    IF index \notin DOMAIN p THEN Raised("KeyError") ELSE Returned(p[index])

Sub(u, v) == <<u[1] - v[1], u[2] - v[2], u[3] - v[3]>>

Dot(u, v) == u[1] * v[1] + u[2] * v[2] + u[3] * v[3]

Cross(u, v) ==
    <<u[2] * v[3] - u[3] * v[2], u[3] * v[1] - u[1] * v[3], u[1] * v[2] - u[2] * v[1]>>

RECURSIVE GCD(_, _)

GCD(a, b) == IF b = 0 THEN a ELSE GCD(b, a % b)

Sign(x) == IF x > 0 THEN 1 ELSE IF x < 0 THEN -1 ELSE 0

\* A vector that may hold nan; a vector of length one is held by any vector
\* of its direction.
Vec(v) == [nan |-> FALSE, dir |-> v]

NanVec == [nan |-> TRUE, dir |-> <<0, 0, 0>>]

\* utilities.normalize
normalize(U) == IF U.nan \/ U.dir = <<0, 0, 0>> THEN NanVec ELSE U

NanAngle == [nan |-> TRUE, sgn |-> 0, num |-> 0, den |-> 1, reflex |-> FALSE]

\* The angle whose cosine is d / sqrt(n2)
AngleOfCosine(d, n2) ==
    LET g == GCD(d * d, n2)
    IN  [nan |-> FALSE, sgn |-> Sign(d), num |-> (d * d) \div g,
         den |-> n2 \div g, reflex |-> FALSE]

ZeroAngle == AngleOfCosine(1, 1)

\* utilities.give_angle: the inverse cosine of the product of the
\* normalized vectors
give_angle(U, V) ==
    LET u == normalize(U)
        v == normalize(V)
    IN  IF u.nan \/ v.nan THEN NanAngle
        ELSE AngleOfCosine(Dot(u.dir, v.dir),
                           Dot(u.dir, u.dir) * Dot(v.dir, v.dir))

\* distance(index, bond_with), squared
distance(p, index, bond_with) ==
    LET loc == location(p, <<index, bond_with>>)
    IN  IF loc.raises # None THEN loc
        ELSE LET q == Sub(loc.value[2], loc.value[1]) IN Returned(Dot(q, q))

\* angle_degrees measuring at the atom itself instead of at bond_with
angle_degrees_AtIndex(p, index, bond_with, angle_with) ==
    LET loc == location(p, <<index, bond_with, angle_with>>)
    IN  IF loc.raises # None THEN loc
        ELSE Returned(give_angle(Vec(Sub(loc.value[2], loc.value[1])),
                                 Vec(Sub(loc.value[3], loc.value[1]))))

angle_degrees(p, index, bond_with, angle_with) ==
    LET loc == location(p, <<index, bond_with, angle_with>>)
    IN  IF loc.raises # None THEN loc
        ELSE LET BI == Sub(loc.value[1], loc.value[2])
                 BA == Sub(loc.value[3], loc.value[2])
             IN  Returned(give_angle(Vec(BI), Vec(BA)))

dihedral_degrees(p, index, bond_with, angle_with, dihedral_with) ==
    LET loc == location(p, <<index, bond_with, angle_with, dihedral_with>>)
    IN  IF loc.raises # None THEN loc
        ELSE LET DA == Sub(loc.value[3], loc.value[4])
                 AB == Sub(loc.value[2], loc.value[3])
                 BI == Sub(loc.value[1], loc.value[2])
                 n1 == normalize(Vec(Cross(DA, AB)))
                 n2 == normalize(Vec(Cross(AB, BI)))
                 dihedral == give_angle(n1, n2)
             IN  Returned(
                   IF dihedral.nan \/ dihedral = ZeroAngle THEN dihedral
                   ELSE IF 0 < Dot(AB, Cross(n1.dir, n2.dir)) THEN dihedral
                   ELSE [dihedral EXCEPT !.reflex = TRUE])

InitGeometry ==
    /\ xyz \in [Index -> Points]
    /\ \A i, j \in Index : i < j => LexLess(xyz[i], xyz[j])
    /\ bond_size = ElementProperties.bs
    /\ valency = ElementProperties.val
    /\ lookup = NoBondDic
    /\ op = "init"
    /\ args \in [index : Keys, bond_with : Keys, angle_with : Keys,
                 dihedral_with : Keys]
    /\ ret = None

Geometry(name, value) ==
    /\ op = "init"
    /\ op' = name
    /\ ret' = value
    /\ UNCHANGED <<xyz, bond_size, valency, lookup, args>>

Location ==
    \/ Geometry("location", location_of_key(xyz, args.index))
    \/ Geometry("location list", location(xyz, <<args.index, args.bond_with>>))

Distance == Geometry("distance", distance(xyz, args.index, args.bond_with))

AngleDegrees ==
    Geometry("angle_degrees",
             angle_degrees(xyz, args.index, args.bond_with, args.angle_with))

DihedralDegrees ==
    Geometry("dihedral_degrees",
             dihedral_degrees(xyz, args.index, args.bond_with, args.angle_with,
                              args.dihedral_with))

NextGeometry == Location \/ Distance \/ AngleDegrees \/ DihedralDegrees

SpecGeometry == InitGeometry /\ [][NextGeometry]_vars

\* The keys a call was given.
Requested ==
    IF op = "location" THEN {args.index}
    ELSE IF op \in {"location list", "distance"} THEN {args.index, args.bond_with}
    ELSE IF op = "angle_degrees" THEN {args.index, args.bond_with, args.angle_with}
    ELSE {args.index, args.bond_with, args.angle_with, args.dihedral_with}

\* C14: location, and distance, angle_degrees and dihedral_degrees through
\* it, raise KeyError whenever a requested key is not a key of the molecule
\* and only then; no position is returned for a missing key.
C14_MissingKeyRaises ==
    op # "init" =>
        ((ret.raises = "KeyError") <=> (\E k \in Requested : k \notin Index))

C14_Witness ==
    /\ op = "dihedral_degrees"
    /\ args.dihedral_with = MissingKey
    /\ {args.index, args.bond_with, args.angle_with} \subseteq Index
    /\ ret.raises = "KeyError"

At(k) == xyz[k]

Collinear(a, b, c) == Cross(Sub(At(b), At(a)), Sub(At(c), At(b))) = <<0, 0, 0>>

\* Two of the atoms given coincide, or three consecutive ones are collinear.
DegenerateGeometry ==
    IF op = "angle_degrees"
    THEN \/ At(args.index) = At(args.bond_with)
         \/ At(args.bond_with) = At(args.angle_with)
         \/ At(args.index) = At(args.angle_with)
    ELSE \/ \E k, l \in {"index", "bond_with", "angle_with", "dihedral_with"} :
               k # l /\ At(args[k]) = At(args[l])
         \/ Collinear(args.index, args.bond_with, args.angle_with)
         \/ Collinear(args.bond_with, args.angle_with, args.dihedral_with)

\* C16: angle_degrees and dihedral_degrees report a degenerate geometry
\* (coinciding atoms, collinear consecutive atoms) and return no angle for it.
C16_DegenerateReported ==
    (/\ op \in {"angle_degrees", "dihedral_degrees"}
     /\ Requested \subseteq Index
     /\ DegenerateGeometry)
    => ret.raises # None

\* ============================================================ to_zmat, fragments
\* to_zmat up to its first call of _order_of_building.  A fragment is the
\* list [entry, entry, entry, key, key, ...]: three anchoring entries and
\* then the keys of all its atoms.
ZmatAtoms == 1..(NAtoms + 2)

ZmatKeys == ZmatAtoms \cup {NAtoms + 3}

ZmatMolecule == [i \in ZmatAtoms |-> <<(i - 1) \div 2, (i - 1) % 2, 0>>]

\* The fragment with the atoms S, anchored at its three lowest keys.
FragmentOf(S) ==
    LET q == SetToSeq(S)
    IN  Chained(SubSeq(q, 1, 3)) \o [n \in DOMAIN q |-> Bare(q[n])]

Fragments == {FragmentOf(S) : S \in {T \in SUBSET ZmatKeys : Cardinality(T) \in {3, 4}}}

FragmentLists ==
    {<<>>} \cup {<<f>> : f \in Fragments} \cup {<<f, g>> : f, g \in Fragments}

\* for index in [element[0] for element in fragment[0:3]]: fragment.remove(index)
\* fragment = fragment[0:3] + [[number] for number in fragment[3:]]
RECURSIVE RemoveKeys(_, _)

RemoveKeys(fragment, keys) ==
    IF keys = <<>> THEN fragment
    ELSE LET at == {n \in DOMAIN fragment :
                       ~fragment[n].is_list /\ fragment[n].v[1] = Head(keys)}
         IN  RemoveKeys(RemoveAt(fragment, SetMin(at)), Tail(keys))

prepared_fragment(fragment) ==
    LET left == RemoveKeys(fragment, [n \in 1..3 |-> fragment[n].v[1]])
    IN  [n \in DOMAIN left |-> IF n <= 3 THEN left[n] ELSE Entry(left[n].v)]

fragment_index(fragment) == {fragment[n].v[1] : n \in DOMAIN fragment}

\* Lines 1093-1112: the fragments as prepared and the set
\* molecule_without_fragments_set, or the AssertionError of one of the asserts.
prepare(frame_index, buildlist, fragments_list) ==
    LET fragments == [n \in DOMAIN fragments_list |->
                         prepared_fragment(fragments_list[n])]
        fragment_index_set == UNION {fragment_index(fragments[n]) : n \in DOMAIN fragments}
        molecule_without_fragments_set == frame_index \ fragment_index_set
    IN  IF \E n \in DOMAIN fragments :
               \/ ~(fragment_index(fragments[n]) \subseteq frame_index)
               \/ fragment_index(fragments[n]) = frame_index
        THEN Raised("AssertionError")
        ELSE IF ~({buildlist[n].v[1] : n \in DOMAIN buildlist}
                     \subseteq molecule_without_fragments_set)
        THEN Raised("AssertionError")
        ELSE Returned([fragments |-> fragments,
                       molecule_without_fragments_set |-> molecule_without_fragments_set])

InitZmat ==
    /\ xyz = ZmatMolecule
    /\ bond_size = [i \in ZmatAtoms |-> ElementBondSize]
    /\ valency = [i \in ZmatAtoms |-> ElementValency]
    /\ lookup = NoBondDic
    /\ op = "init"
    /\ args \in [buildlist : {<<>>}, fragments_list : FragmentLists,
                 recursion_level : Recursions]
    /\ ret = None

PrepareFragments ==
    /\ op = "init"
    /\ ret' = prepare(DOMAIN xyz, args.buildlist, args.fragments_list)
    /\ op' = "to_zmat"
    /\ UNCHANGED <<xyz, bond_size, valency, lookup, args>>

\* _order_of_building(xyz_frame.loc[molecule_without_fragments_set, :], ...)
OrderOfBigMolecule ==
    /\ op = "to_zmat"
    /\ ret.raises = None
    /\ \E tie \in BuildTies :
          ret' = order_of_building(
                     [i \in ret.value.molecule_without_fragments_set |-> xyz[i]],
                     args.buildlist, args.recursion_level, tie)
    /\ op' = "_order_of_building"
    /\ UNCHANGED <<xyz, bond_size, valency, lookup, args>>

NextZmat == PrepareFragments \/ OrderOfBigMolecule

SpecZmat == InitZmat /\ [][NextZmat]_vars

\* The atoms a fragment of the caller's list names.
NamedBy(n) == fragment_index(args.fragments_list[n])

\* C15: to_zmat reaches _order_of_building only with a fragments_list in
\* which no two fragments share an atom and every fragment names atoms of
\* the molecule only; any other list is rejected before.
C15_BadFragmentsRejected ==
    op = "_order_of_building"
    => /\ \A n \in DOMAIN args.fragments_list : NamedBy(n) \subseteq ZmatAtoms
       /\ \A m, n \in DOMAIN args.fragments_list :
             m # n => NamedBy(m) \cap NamedBy(n) = {}

\* ============================================================ one instance
\* The methods that return a new Cartesian, called in any order on one
\* instance.  A returned molecule is the table of its rows: the keys in row
\* order and the positions beside them.
Table(keys, p) == [keys |-> keys, at |-> [n \in DOMAIN keys |-> p[keys[n]]]]

\* self.xyz_frame.loc[rows, :] with a set of keys
Rows(p, rows) == Table(SetToSeq(rows), p)

Identity == <<<<1, 0, 0>>, <<0, 1, 0>>, <<0, 0, 1>>>>

MirrorX == <<<<-1, 0, 0>>, <<0, 1, 0>>, <<0, 0, 1>>>>

\* np.dot(matrix, vector) + translation
Moved(matrix, vector, v) ==
    <<Dot(matrix[1], v) + vector[1], Dot(matrix[2], v) + vector[2],
      Dot(matrix[3], v) + vector[3]>>

\* move(vector, matrix, indices, copy): the returned table
move(p, vector, matrix, which, copy) ==
    LET old == SetToSeq(DOMAIN p)
        moved == [i \in which |-> Moved(matrix, vector, p[i])]
    IN  IF copy
        THEN LET max_index == SetMax(DOMAIN p)
                 picked == SetToSeq(which)
             IN  [keys |-> old \o [n \in DOMAIN picked |-> max_index + n],
                  at |-> [n \in DOMAIN old |-> p[old[n]]]
                         \o [n \in DOMAIN picked |-> moved[picked[n]]]]
        ELSE [keys |-> old,
              at |-> [n \in DOMAIN old |->
                         IF old[n] \in which THEN moved[old[n]] ELSE p[old[n]]]]

\* change_numbering(rename_dic): every key of the dictionary is replaced
\* by its value, all at once; the rows stay where they are.
change_numbering(p, rename_dic) ==
    LET old == SetToSeq(DOMAIN p)
    IN  [keys |-> [n \in DOMAIN old |->
                      IF old[n] \in DOMAIN rename_dic THEN rename_dic[old[n]]
                      ELSE old[n]],
         at |-> [n \in DOMAIN old |-> p[old[n]]]]

\* distance_frame(origin): all rows, with the distance as a further column
distance_frame(p, origin) ==
    LET t == Rows(p, DOMAIN p)
    IN  [keys |-> t.keys, at |-> t.at,
         distance2 |-> [n \in DOMAIN t.keys |->
                           Dot(Sub(t.at[n], origin), Sub(t.at[n], origin))]]

\* The rows cutsphere keeps before bonds are preserved
sphere(p, radius, origin, outside_sliced) ==
    {i \in DOMAIN p :
        LET d2 == Dot(Sub(p[i], origin), Sub(p[i], origin))
        IN  IF outside_sliced THEN d2 < Sq(radius) ELSE d2 > Sq(radius)}

Abs(x) == IF x < 0 THEN -x ELSE x

\* The rows cutcuboid keeps before bonds are preserved (b = c = a)
cuboid(p, a, origin, outside_sliced) ==
    {i \in DOMAIN p :
        IF outside_sliced
        THEN \A k \in Axes : 2 * Abs(p[i][k] - origin[k]) < a
        ELSE \A k \in Axes : 2 * Abs(p[i][k] - origin[k]) > a}

\* get_fragment that excludes the molecule-side atom of the first tuple only
get_fragment_FirstTupleOnly(list_of_indextuples, bond_dic) ==
    connected_to_set(list_of_indextuples[1][2], bond_dic,
                     {list_of_indextuples[1][1]})

\* get_fragment(list_of_indextuples): the keys of the fragment
get_fragment(list_of_indextuples, bond_dic) ==
    LET exclude == {list_of_indextuples[n][1] : n \in DOMAIN list_of_indextuples}
        index_of_atom == list_of_indextuples[1][2]
    IN  connected_to_set(index_of_atom, bond_dic, exclude)

\* origin: a list of three coordinates or the key of an atom
Origins ==
    [is_key : {TRUE}, v : Index] \cup [is_key : {FALSE}, v : {<<0, 0, 0>>}]

\* An integer origin is the key of an atom: self.location(int(origin))
OriginPoint(p, origin) == IF origin.is_key THEN p[origin.v] ELSE origin.v

CutArgs ==
    [size : 1..(2 * MaxCoord), origin : Origins, outside_sliced : BOOLEAN,
     preserve_bonds : BOOLEAN, pop : {[i \in Index |-> i]}]

MoveArgs ==
    [vector : {<<0, 0, 0>>, <<1, 0, 0>>}, matrix : {Identity, MirrorX},
     indices : (SUBSET Index) \ {{}}, copy : BOOLEAN]

\* rename_dic: at most two keys of the molecule, each with the key it becomes
RenameDics == UNION {[S -> Keys] : S \in {T \in SUBSET Index : Cardinality(T) <= 2}}

\* list_of_indextuples: one or two bonds (molecule atom, fragment atom)
IndexTuples ==
    {<<t>> : t \in Index \X Index}
    \cup {<<t, u>> : t \in Index \X Index, u \in Index \X Index}

\* A method that returns a new molecule and may store the bond graph
Call(name, a, value, lk) ==
    /\ ret' = value
    /\ lookup' = lk
    /\ args' = a
    /\ op' = name
    /\ UNCHANGED <<xyz, bond_size, valency>>

\* The rows a cut returns, and the lookup it leaves
Cut(name, a, sliced) ==
    LET bond_dic == DefaultGetBonds(lookup, xyz, bond_size, valency)
    IN  IF a.preserve_bonds
        THEN Call(name, a, Rows(xyz, preserve_bonds(sliced, bond_dic, a.pop)),
                  bond_dic_after(lookup, TRUE, TRUE, bond_dic))
        ELSE Call(name, a, Rows(xyz, sliced), lookup)

CallCutsphere ==
    \E a \in CutArgs :
        Cut("cutsphere", a,
            sphere(xyz, a.size, OriginPoint(xyz, a.origin), a.outside_sliced))

CallCutcuboid ==
    \E a \in CutArgs :
        Cut("cutcuboid", a,
            cuboid(xyz, a.size, OriginPoint(xyz, a.origin), a.outside_sliced))

\* move writing into the instance's own frame instead of a copy
CallMove_InPlace ==
    \E a \in MoveArgs :
        LET frame == move(xyz, a.vector, a.matrix, a.indices, a.copy)
        IN  /\ ret' = frame
            /\ xyz' = IF a.copy THEN xyz ELSE [i \in Index |-> frame.at[i]]
            /\ args' = a
            /\ op' = "move"
            /\ UNCHANGED <<bond_size, valency, lookup>>

CallMove ==
    \E a \in MoveArgs :
        Call("move", a, move(xyz, a.vector, a.matrix, a.indices, a.copy), lookup)

CallChangeNumbering ==
    \E rename_dic \in RenameDics :
        Call("change_numbering", rename_dic, change_numbering(xyz, rename_dic),
             lookup)

CallDistanceFrame ==
    \E origin \in {xyz[i] : i \in Index} :
        Call("distance_frame", origin, distance_frame(xyz, origin), lookup)

CallConnectedTo ==
    \E a \in ConnectedToArgs :
        LET bond_dic == DefaultGetBonds(lookup, xyz, bond_size, valency)
        IN  Call("connected_to", a,
                 Rows(xyz, connected_to_set(a.index_of_atom, bond_dic, {})),
                 bond_dic_after(lookup, TRUE, TRUE, bond_dic))

CallGetFragment ==
    \E list_of_indextuples \in IndexTuples :
        LET bond_dic == DefaultGetBonds(lookup, xyz, bond_size, valency)
        IN  Call("get_fragment", list_of_indextuples,
                 Rows(xyz, get_fragment(list_of_indextuples, bond_dic)),
                 bond_dic_after(lookup, TRUE, TRUE, bond_dic))

\* get_bonds(use_lookup, set_lookup) with every other argument at its default
CallGetBonds ==
    \E use_lookup \in BOOLEAN, set_lookup \in BOOLEAN :
        LET value == get_bonds(lookup, xyz, bond_size, valency, FALSE, use_lookup,
                               TRUE, DefaultMaxEdge * Scale,
                               DefaultDiffEdge * Scale, [i \in Index |-> i], {})
        IN  Call("get_bonds", <<use_lookup, set_lookup>>, value,
                 bond_dic_after(lookup, use_lookup, set_lookup, value))

NextInstance ==
    \/ CallGetBonds
    \/ CallCutsphere
    \/ CallCutcuboid
    \/ CallMove
    \/ CallChangeNumbering
    \/ CallDistanceFrame
    \/ CallConnectedTo
    \/ CallGetFragment

SpecInstance == InitLookup /\ [][NextInstance]_vars

ReturnsMolecule ==
    op \in {"cutsphere", "cutcuboid", "move", "change_numbering",
            "connected_to", "get_fragment"}

\* C18: every molecule returned by cutsphere, cutcuboid, move,
\* change_numbering, connected_to or get_fragment has pairwise distinct
\* atom keys.
C18_KeysStayUnique ==
    ReturnsMolecule =>
        \A m, n \in DOMAIN ret.keys : m # n => ret.keys[m] # ret.keys[n]

\* C19: no call of get_bonds, connected_to, get_fragment, cutsphere,
\* cutcuboid, move, distance_frame or change_numbering changes the keys,
\* elements or positions of the instance it is called on; only the stored
\* bond graph may differ afterwards.
C19_AtomTableUnchanged ==
    [][xyz' = xyz /\ bond_size' = bond_size /\ valency' = valency]_vars

\* After a bond graph was stored, move without copy returned a molecule
\* whose positions differ from the instance's.
C19_Witness ==
    /\ op = "move"
    /\ ~args.copy
    /\ lookup # NoBondDic
    /\ \E n \in DOMAIN ret.keys : ret.at[n] # xyz[ret.keys[n]]

\* ============================================================ _build_zmat
\* The rows of the Z-matrix for a buildlist whose entries carry their
\* references.  A row holds the columns that were assigned; the columns of
\* the frame that were never assigned stay nan and are left out.  Positions
\* are in hundredths of a length unit where the molecule needs them.
Centi == 100

ZRowAtoms == 0..2

\* One row: the entry [index, bond_with, angle_with, dihedral_with] cut to
\* the number of references of its place
zmat_row(p, e, refs) ==
    LET first == [index |-> e[1]]
        second == [index |-> e[1], bond_with |-> e[2],
                   bond |-> distance(p, e[1], e[2]).value]
        third == [index |-> e[1], bond_with |-> e[2],
                  bond |-> distance(p, e[1], e[2]).value,
                  angle_with |-> e[3],
                  angle |-> angle_degrees(p, e[1], e[2], e[3]).value]
    IN  IF refs = 0 THEN first
        ELSE IF refs = 1 THEN second
        ELSE IF refs = 2 THEN third
        ELSE [index |-> e[1], bond_with |-> e[2],
              bond |-> distance(p, e[1], e[2]).value,
              angle_with |-> e[3],
              angle |-> angle_degrees(p, e[1], e[2], e[3]).value,
              dihedral_with |-> e[4],
              dihedral |-> dihedral_degrees(p, e[1], e[2], e[3], e[4]).value]

Min3(n) == IF n < 3 THEN n ELSE 3

\* _build_zmat(buildlist).  The reference lists are read first (lines
\* 1024-1026): an entry with fewer elements than its place needs is an
\* IndexError.  With two or three entries the second and third are unpacked
\* into exactly two and three names, so a longer entry is a ValueError.
\* location raises KeyError for a key that the frame does not hold.
build_zmat(p, buildlist) ==
    IF \E n \in DOMAIN buildlist : Len(buildlist[n]) < Min3(n - 1) + 1
    THEN Raised("IndexError")
    ELSE IF /\ Len(buildlist) \in {2, 3}
            /\ \E n \in 2..Len(buildlist) : Len(buildlist[n]) # n
    THEN Raised("ValueError")
    ELSE IF \E n \in DOMAIN buildlist :
               \E k \in 1..(Min3(n - 1) + 1) : buildlist[n][k] \notin DOMAIN p
    THEN Raised("KeyError")
    ELSE Returned([n \in DOMAIN buildlist |->
                      zmat_row(p, buildlist[n], Min3(n - 1))])

\* Atoms 0 and 1 one length unit apart on the x axis and a third atom
ThreeAtoms ==
    {[i \in ZRowAtoms |->
         IF i = 0 THEN <<0, 0, 0>>
         ELSE IF i = 1 THEN <<Centi, 0, 0>>
         ELSE <<50 * x, 87 * y, 0>>] :
       x \in 0..(MaxCoord + 1), y \in 0..1}

\* Four atoms on the grid, for the rows with a dihedral
FourAtoms ==
    {p \in [0..3 -> Points] : \A i, j \in 0..3 : i < j => LexLess(p[i], p[j])}

\* Every entry names the atoms before it, nearest place first; swapped, the
\* third entry names its two references in the other order.
RowsOf(q, swapped) ==
    [n \in DOMAIN q |->
        IF n = 3 /\ swapped THEN <<q[3], q[1], q[2]>>
        ELSE [k \in 1..(Min3(n - 1) + 1) |-> q[n - (k - 1)]]]

RowBuildlists(atoms) ==
    {RowsOf(q, swapped) :
        q \in UNION {{r \in [1..l -> atoms] : Injective(r)} :
                        l \in 1..Cardinality(atoms)},
        swapped \in BOOLEAN}

InitBuildZmat ==
    /\ xyz \in ThreeAtoms \cup FourAtoms
    /\ bond_size = ElementProperties.bs
    /\ valency = ElementProperties.val
    /\ lookup = NoBondDic
    /\ op = "init"
    /\ args \in [buildlist : RowBuildlists(0..3)]
    /\ \A n \in DOMAIN args.buildlist : args.buildlist[n][1] \in DOMAIN xyz
    /\ ret = None

\* _build_zmat(buildlist)
BuildZmat ==
    /\ op = "init"
    /\ ret' = build_zmat(xyz, args.buildlist)
    /\ op' = "_build_zmat"
    /\ UNCHANGED <<xyz, bond_size, valency, lookup, args>>

NextBuildZmat == BuildZmat

SpecBuildZmat == InitBuildZmat /\ [][NextBuildZmat]_vars

\* Atoms 0 at (0,0,0), 1 at (1.0,0,0) and 2 at (1.5,0.87,0), built in the
\* order 0, 1, 2 with 1 referring to 0 and 2 referring to 1 and 0
ThreeAtomCase ==
    /\ xyz = [i \in ZRowAtoms |->
                 IF i = 0 THEN <<0, 0, 0>>
                 ELSE IF i = 1 THEN <<100, 0, 0>> ELSE <<150, 87, 0>>]
    /\ args.buildlist = <<<<0>>, <<1, 0>>, <<2, 1, 0>>>>
    /\ op = "_build_zmat"

\* The first two rows and the bond of the third: no references for atom 0,
\* atom 1 at length 1.0 from atom 0, atom 2 at length 1.0 (within five
\* hundredths) from atom 1 with its angle taken to atom 0.
ThreeAtomBonds ==
    /\ ret.raises = None
    /\ ret.value[1] = [index |-> 0]
    /\ ret.value[2] = [index |-> 1, bond_with |-> 0, bond |-> Sq(Centi)]
    /\ ret.value[3].index = 2 /\ ret.value[3].bond_with = 1
    /\ Sq(95) < ret.value[3].bond /\ ret.value[3].bond < Sq(105)
    /\ ret.value[3].angle_with = 0
    /\ ~ret.value[3].angle.nan

\* The cosine c of the angle has 1/4 - 1/20 < c^2 < 1/4 + 1/20: the angle
\* is within four degrees of 60 or of 120 degrees.
CosineAboutHalf(angle) ==
    5 * angle.num > angle.den /\ 10 * angle.num < 3 * angle.den

ReferenceAtoms == 1..(NAtoms + 2)

BareOrders ==
    UNION {{q \in [1..l -> 1..l] : Injective(q)} :
              l \in 1..Cardinality(ReferenceAtoms)}

\* Bond sizes in grid steps: the element's, and at most one atom with a
\* larger one from modified_properties.
ReferenceBondSizes ==
    {bs \in [ReferenceAtoms -> BondSizes] :
        Cardinality({i \in ReferenceAtoms : bs[i] # ElementBondSize}) <= 1}

InitReference ==
    /\ xyz \in [ReferenceAtoms -> Points]
    /\ \A i, j \in ReferenceAtoms : i < j => LexLess(xyz[i], xyz[j])
    /\ bond_size \in ReferenceBondSizes
    /\ valency = [i \in ReferenceAtoms |-> ElementValency]
    /\ lookup = NoBondDic
    /\ op = "init"
    /\ args \in [order : BareOrders, recursion_level : Recursions]
    /\ ret = None

\* _get_reference(order_of_building=order, recursion=recursion_level)
GetReferenceOfOrder ==
    /\ op = "init"
    /\ \E tie \in BuildTies :
          ret' = get_reference(xyz, [n \in DOMAIN args.order |-> Bare(args.order[n])],
                               args.recursion_level, tie)
    /\ op' = "_get_reference"
    /\ UNCHANGED <<xyz, bond_size, valency, lookup, args>>

NextReference == GetReferenceOfOrder

SpecReference == InitReference /\ [][NextReference]_vars

\* C22: for every order of n >= 1 bare atoms and every recursion level
\* _get_reference returns n entries in build order, the entry at place k
\* (from 0) being the k-th atom followed by min(k, 3) references that are
\* pairwise distinct and differ from the atom.
C22_EntriesWellFormed ==
    op = "_get_reference"
    => /\ ret.raises = None
       /\ Len(ret.value) = Len(args.order)
       /\ \A k \in DOMAIN ret.value :
             /\ ret.value[k][1] = args.order[k]
             /\ Len(ret.value[k]) = 1 + Min2(k - 1, 3)
             /\ Injective(ret.value[k])

\* The atoms placed before place k that are bonded to the atom at place k:
\* the neighbours of that atom in the graph of get_bonds
BondedPlaced(k) ==
    {args.order[m] : m \in {j \in 1..(k - 1) :
                               StrictlyOverlapping(args.order[k], args.order[j])}}

\* C23: at recursion levels 1 and 2 the references of an entry are taken
\* from the already placed atoms bonded to its atom as far as there are
\* such atoms; atoms that are not bonded to it appear only when the bonded
\* ones are all among the references.
C23_BondedFirst ==
    (op = "_get_reference" /\ args.recursion_level > 0 /\ ret.raises = None)
    => \A k \in DOMAIN ret.value :
          LET refs == {ret.value[k][j] : j \in 2..Len(ret.value[k])}
          IN  refs \subseteq BondedPlaced(k) \/ BondedPlaced(k) \subseteq refs

\* ============================================================ order of the cuboids
\* for number, key in enumerate(cuboid_dic): the cuboids in a given order
RECURSIVE CuboidsInOrder(_, _, _, _, _, _, _, _)

CuboidsInOrder(bond_dic, cuboid_dic, order, p, bs, val, use_valency, tb) ==
    IF order = <<>> THEN bond_dic
    ELSE CuboidsInOrder(
             get_bonds_local(bond_dic, p, bs, val, use_valency, tb,
                             cuboid_dic[Head(order)][2]),
             cuboid_dic, Tail(order), p, bs, val, use_valency, tb)

\* Every order in which a dictionary may hand out its keys
KeyOrders(S) == {q \in [1..Cardinality(S) -> S] : Injective(q)}

CuboidsOfCall(rnd) ==
    divide_et_impera(xyz, args.maximum_edge_length, args.difference_edge, rnd)

\* The edges that each cuboid gives by itself
EdgesOfCuboid(rnd) ==
    LET cuboid_dic == CuboidsOfCall(rnd)
    IN  [c \in DOMAIN cuboid_dic |->
            LocalEdges(xyz, bond_size, valency, args.use_valency, args.tb,
                       cuboid_dic[c][2])]

\* The union over the cuboids
UnionOfCuboids(rnd) ==
    LET edges == EdgesOfCuboid(rnd)
    IN  [i \in Index |->
            {j \in Index : \E c \in DOMAIN edges : <<i, j>> \in edges[c]}]

\* C26: with partitioning the returned graph is the same for every order in
\* which the cuboids are processed, and it is the union of what each cuboid
\* gives by itself, valency cutting included.
C26_CellOrderIrrelevant ==
    (Called /\ args.divide_et_impera)
    => \E rnd \in Roundings(xyz, args.maximum_edge_length, args.difference_edge) :
          /\ ret = UnionOfCuboids(rnd)
          /\ LET cuboid_dic == CuboidsOfCall(rnd)
             IN  \A order \in KeyOrders(DOMAIN cuboid_dic) :
                    ret = CuboidsInOrder(EmptyGraph, cuboid_dic, order, xyz,
                              bond_size, valency, args.use_valency, args.tb)

\* Two cuboids give one atom different, non-empty sets of bonds, with
\* valency cutting on.
C26_Witness ==
    /\ Called /\ args.divide_et_impera /\ args.use_valency
    /\ \E rnd \in Roundings(xyz, args.maximum_edge_length, args.difference_edge) :
          /\ ret = UnionOfCuboids(rnd)
          /\ LET edges == EdgesOfCuboid(rnd)
             IN  \E i \in Index : \E c, d \in DOMAIN edges :
                    /\ \E j \in Index : <<i, j>> \in edges[c]
                    /\ \E j \in Index : <<i, j>> \in edges[d]
                    /\ \E j \in Index :
                          (<<i, j>> \in edges[c]) # (<<i, j>> \in edges[d])

\* The first elements of the tuples: the atoms on the side of the molecule
MoleculeSide(list_of_indextuples) ==
    {list_of_indextuples[n][1] : n \in DOMAIN list_of_indextuples}

\* The fragment is the set of atoms joined to the second element of the
\* first tuple by bonds that avoid the atoms on the side of the molecule.
IsFragment ==
    LET fragment == SeqToSet(ret.keys)
        index_of_atom == args[1][2]
    IN  /\ fragment = Closure(Without(lookup, MoleculeSide(args)), {index_of_atom})
        /\ fragment \cap MoleculeSide(args) = {}
        /\ index_of_atom \in fragment

\* C28 as stated, for every list of tuples
C28_Original == op = "get_fragment" => IsFragment

\* C28: when the fragment-side atom of the first tuple is not itself the
\* molecule-side atom of a tuple, get_fragment returns exactly the atoms
\* reachable from it along bonds that avoid every molecule-side atom; the
\* result holds no molecule-side atom and holds that fragment-side atom.
C28_FragmentReachable ==
    (op = "get_fragment" /\ args[1][2] \notin MoleculeSide(args)) => IsFragment

\* A fragment of more than one atom was cut off at a bond of the chain.
C28_Witness ==
    /\ op = "get_fragment"
    /\ args[1][2] \notin MoleculeSide(args)
    /\ args[1][1] \in lookup[args[1][2]]
    /\ Cardinality(SeqToSet(ret.keys)) > 1

\* ------------------------------------------- the two loops, step by step
\* The bond graphs handed to the loops: any neighbour sets over the keys,
\* symmetric or not, no atom its own neighbour.
LoopGraphs == {g \in [Index -> SUBSET Index] : \A A \in Index : A \notin g[A]}

SlicedArgs == [sliced : SUBSET Index]

\* The local variables of the running function
Locals(list, pos, included_atoms_set, new_atoms) ==
    [included_atoms_list |-> list, pos |-> pos,
     included_atoms_set |-> included_atoms_set, new_atoms |-> new_atoms]

\* _connected_to up to its for loop (lines 333-336)
EnterConnectedTo(index_of_atom, bond_dic, exclude) ==
    LET included_atoms_set ==
            ({index_of_atom} \cup bond_dic[index_of_atom]) \ exclude
    IN  Locals(SetToSeq(included_atoms_set), 1, included_atoms_set, {})

\* _preserve_bonds up to its while loop (lines 365-372)
EnterPreserveBonds(sliced, bond_dic) ==
    Locals(<<>>, 1, sliced, UNION {bond_dic[atom] : atom \in sliced} \ sliced)

InitLoops ==
    /\ xyz = ChainMolecule
    /\ bond_size = ElementProperties.bs
    /\ valency = ElementProperties.val
    /\ lookup \in LoopGraphs
    /\ args \in ConnectedToArgs \cup SlicedArgs
    /\ IF args \in ConnectedToArgs
       THEN /\ op = "_connected_to"
            /\ ret = EnterConnectedTo(args.index_of_atom, lookup, args.exclude)
       ELSE /\ op = "_preserve_bonds"
            /\ ret = EnterPreserveBonds(args.sliced, lookup)

\* One pass of "for index in included_atoms_list" (lines 337-341); the atoms
\* of new_atoms are appended in the order the set yields them.
ConnectedToIterate ==
    /\ op = "_connected_to"
    /\ ret.pos <= Len(ret.included_atoms_list)
    /\ LET index == ret.included_atoms_list[ret.pos]
           new_atoms == (lookup[index] \ ret.included_atoms_set) \ args.exclude
       IN  \E appended \in KeyOrders(new_atoms) :
              ret' = Locals(ret.included_atoms_list \o appended, ret.pos + 1,
                            new_atoms \cup ret.included_atoms_set, {})
    /\ UNCHANGED <<xyz, bond_size, valency, lookup, op, args>>

\* The list is exhausted: return set(included_atoms_list) (line 342)
ConnectedToReturn ==
    /\ op = "_connected_to"
    /\ ret.pos > Len(ret.included_atoms_list)
    /\ op' = "returned"
    /\ UNCHANGED <<xyz, bond_size, valency, lookup, args, ret>>

\* new_atoms after one pass of the while loop: the popped atom is gone, and
\* so is every atom that the pass included (lines 374, 376).
PendingAfter_KeepsPopped(new_atoms, index_of_interest, included_atoms_set) ==
    new_atoms

PendingAfter(new_atoms, index_of_interest, included_atoms_set) ==
    (new_atoms \ {index_of_interest}) \ included_atoms_set

\* One pass of "while not new_atoms == set([])" (lines 373-376); pop() takes
\* any element of the set.
PreserveBondsIterate ==
    /\ op = "_preserve_bonds"
    /\ ret.new_atoms # {}
    /\ \E index_of_interest \in ret.new_atoms :
          LET grown == ret.included_atoms_set \cup
                         connected_to_set(index_of_interest, lookup,
                                          ret.included_atoms_set)
          IN  ret' = Locals(<<>>, 1, grown,
                            PendingAfter(ret.new_atoms, index_of_interest, grown))
    /\ UNCHANGED <<xyz, bond_size, valency, lookup, op, args>>

\* new_atoms is empty: the frame of included_atoms_set is returned (line 377)
PreserveBondsReturn ==
    /\ op = "_preserve_bonds"
    /\ ret.new_atoms = {}
    /\ op' = "returned"
    /\ UNCHANGED <<xyz, bond_size, valency, lookup, args, ret>>

NextLoops ==
    \/ ConnectedToIterate
    \/ ConnectedToReturn
    \/ PreserveBondsIterate
    \/ PreserveBondsReturn

\* A running loop goes on to its next pass.
SpecLoops == InitLoops /\ [][NextLoops]_vars /\ WF_vars(NextLoops)

\* C29: the worklist loop of _connected_to and the while loop of
\* _preserve_bonds both come to their return, and every pass of the while
\* loop of _preserve_bonds leaves strictly fewer pending outside neighbours.
C29_LoopsTerminate ==
    /\ <>(op = "returned")
    /\ [][PreserveBondsIterate => ret'.new_atoms \subseteq ret.new_atoms
                                  /\ ret'.new_atoms # ret.new_atoms]_vars

\* After one pass of the while loop another neighbour is still pending.
C29_Witness ==
    /\ op = "_preserve_bonds"
    /\ ret.included_atoms_set # args.sliced
    /\ ret.new_atoms # {}

\* ------------------------------------- partitioned against unpartitioned
\* Molecules long enough along x for cuboids whose large sets leave atoms
\* out, and a difference_edge between none and the default.
HaloXCoords == 0..(MaxCoord + 1)

HaloPoints == HaloXCoords \X YCoords \X ZCoords

HaloDiffEdges == DiffEdges \cup {5 * (Scale \div 2)}

HaloArgs ==
    [use_valency : BOOLEAN, divide_et_impera : {TRUE},
     maximum_edge_length : MaxEdges, difference_edge : HaloDiffEdges,
     tb : {[i \in Index |-> i]}]

InitHalo ==
    /\ xyz \in [Index -> HaloPoints]
    /\ xyz[1] = Origin
    /\ Distinct(xyz)
    /\ \E d \in PropertyDics : bond_size = d.bs /\ valency = d.val
    /\ lookup = NoBondDic
    /\ op = "init"
    /\ args \in HaloArgs
    /\ ret = None

SpecHalo == InitHalo /\ [][Next]_vars

\* The graph of the same call with divide_et_impera=False
Unpartitioned ==
    complete_calculation(xyz, bond_size, valency, args.use_valency, FALSE,
                         args.maximum_edge_length, args.difference_edge,
                         args.tb, {})

\* Every bonded pair is closer than difference_edge / 2 on every axis
BondsWithinHalo ==
    \A A \in Index : \A B \in Unpartitioned[A] : \A a \in Axes :
        2 * Abs(Coord(xyz, A, a) - Coord(xyz, B, a)) < args.difference_edge

\* C30: without use_valency the graph computed with partitioning is a
\* subset of the graph computed without it, and the two are equal whenever
\* every bonded pair is closer than difference_edge / 2 on every axis.
C30_PartitionedWithinWhole ==
    (Called /\ args.divide_et_impera /\ ~args.use_valency)
    => /\ \A A \in Index : ret[A] \subseteq Unpartitioned[A]
       /\ BondsWithinHalo => ret = Unpartitioned

\* A bond between atoms that no small set holds together, found in a large
\* set that does not hold every atom.
C30_Witness ==
    /\ Called /\ args.divide_et_impera /\ ~args.use_valency
    /\ BondsWithinHalo
    /\ LET cuboid_dic == divide_et_impera(xyz, args.maximum_edge_length,
                                          args.difference_edge, {})
       IN  \E A \in Index : \E B \in ret[A] :
              /\ \A c \in DOMAIN cuboid_dic :
                    ~({A, B} \subseteq cuboid_dic[c][1])
              /\ \E c \in DOMAIN cuboid_dic :
                    /\ A \in cuboid_dic[c][1]
                    /\ B \in cuboid_dic[c][2]
                    /\ cuboid_dic[c][2] # Index

====
